---- MODULE Spec2Model ----
(***************************************************************************)
(* Model of src/app.py: the pollen map collector.                          *)
(*                                                                         *)
(* Collector.run is an unending loop: each iteration runs one sweep        *)
(* (_run_step) over areas x types, a step being get_data followed by       *)
(* save_image, both guarded by `except Exception`; then it sleeps          *)
(* 24*60*60 - execution_time, or 60 seconds when an exception left the     *)
(* sweep.  Time is the wall clock in whole seconds; it advances only in    *)
(* the awaited calls (the request and the three sleeps).  Second 0 of the  *)
(* clock is 2024-12-30 00:00:00 local time.                                *)
(***************************************************************************)
EXTENDS Integers, Sequences, FiniteSets, TLC

\* ------------------------------------------------------------------ bounds

\* Sweeps started in one behaviour.
MaxSweeps == 2

\* Faults the environment injects in one behaviour: a transport error, an
\* undecodable body, a hung request, a storage error, an exception outside
\* the per-pair try.
MaxFaults == 1

\* Slow requests in one behaviour.
MaxSlow == 1

\* Seconds one request may take: a quick one, a slow one, a hung one (> 24h).
QuickFetch == 2

SlowFetch == 40

HungFetch == 90000

FetchDurations == {QuickFetch, SlowFetch, HungFetch}

\* Wall-clock second at which the process starts: 10 s to midnight, so that
\* the steps of a sweep fall on both sides of a date change.
StartTimes == {86390}

\* Day offsets a step may hand to get_data (SpecAnyDay).
DayOffsets == {-1, 0, 2, 3}

\* -------------------------------------------------------- program constants

DAY == 24 * 60 * 60

PAUSE == 5

COOLDOWN == 60

DefaultDay == 0

base_path == "keker"

\* Collector(areas=..., types=...): the first two members of each enumeration,
\* by display name, in declaration order.
areas == <<"Austria", "France">>

types == <<"AllergyRisk", "Mugwort">>

\* `except Exception` catches these; AssertionError is a subclass of Exception.
ExceptionClasses ==
    {"AssertionError", "HTTPError", "UnidentifiedImageError", "OSError", "RuntimeError"}

\* Subclasses of BaseException that are not subclasses of Exception.
BaseOnlyClasses == {"CancelledError", "KeyboardInterrupt", "SystemExit"}

NoException == "none"

VARIABLES
    pc,              \* position of Collector.run / _run_step
    ai, ti,          \* loop indices into areas and types
    clock,           \* wall clock (time.time(), datetime.now()), seconds
    cur_time,        \* _run_step's cur_time
    execution_time,  \* run's execution_time
    content,         \* the bytes get_data returned to the step
    day,             \* the day offset the step passes to get_data
    calls,           \* get_data calls so far
    requests,        \* HTTP requests issued so far
    files,           \* the archive's files: a set of <<path, bytes>>
    dirs,            \* the archive's directories (paths)
    delay,           \* the latest asyncio.sleep: [kind, secs]
    exc,             \* the exception the latest handler caught, or NoException
    sweeps,          \* sweeps started
    faults,          \* failures injected
    slow,            \* slow requests so far
    log,             \* the steps of the current sweep
    snapshot,        \* files when the current sweep started
    storeLog,        \* every save_image call, in order: history
    sweepHist        \* every sweep: [start, end, status]: history

vars == <<pc, ai, ti, clock, cur_time, execution_time, content, day, calls,
          requests, files, dirs, delay, exc, sweeps, faults, slow, log, snapshot,
          storeLog, sweepHist>>

\* ------------------------------------------------------------ pure functions

NoContent == [kind |-> "none", id |-> 0]

\* The response body of the n-th request: a decodable image, each response
\* with bytes of its own; or a body that is no image (an error page).
Body(n) == [kind |-> "png", id |-> n]

Garbage(n) == [kind |-> "garbage", id |-> n]

\* datetime.datetime.now(): the calendar date of clock second t.
\* Day 0 is 2024-12-30, so the model's days cross a month and a year end.
DayNumber(t) == t \div DAY

CaptureMoment(t) ==
    LET n == DayNumber(t) IN
    IF n <= 1 THEN [year |-> 2024, month |-> 12, day |-> 30 + n]
    ELSE IF n <= 32 THEN [year |-> 2025, month |-> 1, day |-> n - 1]
    ELSE [year |-> 2025, month |-> 2, day |-> n - 32]

\* Mutant: the assert off by one at its upper end.
get_data_UpTo3(type, area, d, net, n) ==
    IF ~(0 <= d /\ d <= 3)
    THEN [raised |-> "AssertionError", sent |-> FALSE, body |-> NoContent]
    ELSE IF net = "error"
    THEN [raised |-> "HTTPError", sent |-> TRUE, body |-> NoContent]
    ELSE [raised |-> NoException, sent |-> TRUE,
          body |-> IF net = "ok" THEN [kind |-> "png", id |-> n]
                   ELSE [kind |-> "garbage", id |-> n]]

\* PollenInfoClient.get_data: the assert comes before the request.
\* net is what the network does with the request: "ok", "garbage", "error".
get_data(type, area, d, net, n) ==
    IF ~(0 <= d /\ d <= 2)
    THEN [raised |-> "AssertionError", sent |-> FALSE, body |-> NoContent]
    ELSE IF net = "error"
    THEN [raised |-> "HTTPError", sent |-> TRUE, body |-> NoContent]
    ELSE [raised |-> NoException, sent |-> TRUE,
          body |-> IF net = "ok" THEN Body(n) ELSE Garbage(n)]

\* The plate draw_on_image draws behind the label: a rounded rectangle at the
\* text's position, the text's bounding box widened by the padding, filled
\* with the RGBA colour (255, 255, 255, 1).
LabelOffset == <<10, 10>>

PlatePadding == 4

PlateFill == <<255, 255, 255, 1>>

LabelPlate == [at |-> LabelOffset, padding |-> PlatePadding, fill |-> PlateFill]

\* ImageCollection.draw_on_image: Image.open raises on bytes that are no image;
\* otherwise the image with the label "<YYYY-MM-DD> <type.name>" drawn on it.
DrawRaises(bytes) == bytes.kind # "png"

\* Mutant: the label dated by the start of the sweep, not by the step's own
\* capture moment.
draw_on_image_SweepDate(type, now, bytes) ==
    [image |-> bytes.id,
     label |-> <<CaptureMoment(cur_time).year, CaptureMoment(cur_time).month,
                 CaptureMoment(cur_time).day, type>>,
     size |-> "full", plate |-> LabelPlate]

draw_on_image(type, now, bytes) ==
    [image |-> bytes.id, label |-> <<now.year, now.month, now.day, type>>, size |-> "full",
     plate |-> LabelPlate]

\* What a failed write leaves of the bytes in a file opened with "wb":
\* a proper prefix of them, which may be empty.
Truncated(bytes) == [bytes EXCEPT !.size = "truncated"]

\* Mutant: the region above the allergen in the folder.
FolderAreaFirst(type, area, now) == <<base_path, area, type, now.year, now.month>>

\* save_image's folder and file.
Folder(type, area, now) == <<base_path, type, area, now.year, now.month>>

\* Mutant: the file named after the month, inside the month's folder.
FilePathByMonth(type, area, now) == Append(Folder(type, area, now), now.month)

FilePath(type, area, now) == Append(Folder(type, area, now), now.day)

\* folder.mkdir(parents=True, exist_ok=True): every missing ancestor, top down.
Ancestors(folder, upto) == {SubSeq(folder, 1, k) : k \in 1..upto}

\* Mutant: the write keeps what was at the path beside the new bytes.
WriteFileKeepsOld(fs, path, bytes) == fs \cup {<<path, bytes>>}

\* aiofiles.open(file, "wb") followed by f.write(bytes): the file holds bytes
\* and nothing else; whatever was at the path is gone.
WriteFile(fs, path, bytes) == {f \in fs : f[1] # path} \cup {<<path, bytes>>}

\* What the storage can do during one save_image.
IoOutcomes(folder, ds) ==
    {[kind |-> k, at |-> 0] : k \in {"ok", "open_fails", "write_fails"}}
    \cup {[kind |-> "mkdir_fails", at |-> k] :
             k \in {j \in 2..Len(folder) : SubSeq(folder, 1, j) \notin ds}}

\* ImageCollection.save_image under storage behaviour io:
\* mkdir, then draw_on_image, then open "wb", then write.
save_image(bytes, type, area, t, fs, ds, io) ==
    LET now    == CaptureMoment(t)
        folder == Folder(type, area, now)
        file   == FilePath(type, area, now)
        made   == ds \cup Ancestors(folder, Len(folder))
        image  == draw_on_image(type, now, bytes)
    IN  IF io.kind = "mkdir_fails"
        THEN [raised |-> "OSError", files |-> fs, opened |-> FALSE,
              dirs |-> ds \cup Ancestors(folder, io.at - 1), path |-> file, bytes |-> image]
        ELSE IF DrawRaises(bytes)
        THEN [raised |-> "UnidentifiedImageError", files |-> fs, opened |-> FALSE,
              dirs |-> made, path |-> file, bytes |-> image]
        ELSE IF io.kind = "open_fails"
        THEN [raised |-> "OSError", files |-> fs, opened |-> FALSE,
              dirs |-> made, path |-> file, bytes |-> image]
        ELSE IF io.kind = "write_fails"
        THEN [raised |-> "OSError", files |-> WriteFile(fs, file, Truncated(image)),
              opened |-> TRUE, dirs |-> made, path |-> file, bytes |-> image]
        ELSE [raised |-> NoException, files |-> WriteFile(fs, file, image),
              opened |-> TRUE, dirs |-> made, path |-> file, bytes |-> image]

\* Mutant: the per-pair guard written as `except httpx.HTTPError`.
PairGuardCatchesHTTPError(e) == e = "HTTPError"

\* Mutant: the per-pair guard written as `except OSError`.
PairGuardCatchesOSError(e) == e = "OSError"

\* `except Exception` of _run_step, the per-pair guard.
PairGuardCatches(e) == e \in ExceptionClasses

\* Mutant: run's guard written as `except OSError`.
SweepGuardCatchesOSError(e) == e = "OSError"

\* `except Exception` of run.
SweepGuardCatches(e) == e \in ExceptionClasses

\* Where control goes when e is raised, inside the per-pair try or outside it.
HandlerFor(e, inTry) ==
    IF inTry /\ PairGuardCatches(e) THEN "pause"
    ELSE IF SweepGuardCatches(e) THEN "cooldown"
    ELSE "exited"

\* Mutant: the loops nested the other way round (allergens outside).
NextPairTypeMajor(a, t) ==
    IF a < Len(areas) THEN <<a + 1, t>>
    ELSE IF t < Len(types) THEN <<1, t + 1>>
    ELSE <<0, 0>>

\* The two for loops of _run_step: the pair after (a, t), or <<0, 0>> at the end.
NextPair(a, t) ==
    IF t < Len(types) THEN <<a, t + 1>>
    ELSE IF a < Len(areas) THEN <<a + 1, 1>>
    ELSE <<0, 0>>

\* Mutant: the daily sleep without the sweep's duration taken off.
SleepArgWholeDay(d) == DAY

\* run's argument to the daily asyncio.sleep.
SleepArg(d) == DAY - d

\* asyncio.sleep(s) returns at once when s <= 0.
AsyncioSleep(s) == IF s <= 0 THEN 0 ELSE s

Last(s) == s[Len(s)]

SetLast(s, e) == [s EXCEPT ![Len(s)] = e]

\* ------------------------------------------------------------------- states

InitWith(offsets) ==
    /\ pc = "run"
    /\ ai = 0
    /\ ti = 0
    /\ clock \in StartTimes
    /\ cur_time = 0
    /\ execution_time = 0
    /\ content = NoContent
    /\ day \in offsets
    /\ calls = 0
    /\ requests = 0
    /\ files = {}
    /\ dirs = {<<base_path>>}
    /\ delay = [kind |-> "none", secs |-> 0]
    /\ exc = NoException
    /\ sweeps = 0
    /\ faults = 0
    /\ slow = 0
    /\ log = <<>>
    /\ snapshot = {}
    /\ storeLog = <<>>
    /\ sweepHist = <<>>

\* The program: get_data is called with its default day offset.
Init == InitWith({DefaultDay})

\* get_data called with any day offset.
InitAnyDay == InitWith(DayOffsets)

\* run calls _run_step: cur_time = time.time(), the loops start.
StartSweep ==
    /\ pc = "run"
    /\ sweeps < MaxSweeps
    /\ pc' = "fetch"
    /\ cur_time' = clock
    /\ ai' = 1
    /\ ti' = 1
    /\ sweeps' = sweeps + 1
    /\ log' = <<>>
    /\ snapshot' = files
    /\ exc' = NoException
    /\ sweepHist' = Append(sweepHist, [start |-> clock, end |-> clock, status |-> "running"])
    /\ UNCHANGED <<clock, execution_time, content, day, calls, requests, files,
                   dirs, delay, faults, slow, storeLog>>

\* The step's get_data call, and the per-pair guard when it raises.
Fetch ==
    /\ pc = "fetch"
    /\ \E dur \in FetchDurations, net \in {"ok", "garbage", "error"} :
         LET r == get_data(types[ti], areas[ai], day, net, requests + 1)
             fault == r.sent /\ (net # "ok" \/ dur = HungFetch)
             long  == r.sent /\ dur = SlowFetch
         IN  /\ fault => faults < MaxFaults
             /\ long => slow < MaxSlow
             /\ slow' = IF long THEN slow + 1 ELSE slow
             /\ faults' = IF fault THEN faults + 1 ELSE faults
             /\ calls' = calls + 1
             /\ requests' = IF r.sent THEN requests + 1 ELSE requests
             /\ clock' = IF r.sent THEN clock + dur ELSE clock
             /\ content' = r.body
             /\ exc' = r.raised
             /\ pc' = IF r.raised = NoException THEN "save" ELSE HandlerFor(r.raised, TRUE)
             /\ log' = Append(log, [area |-> areas[ai], type |-> types[ti],
                                    fetch |-> IF r.raised = NoException THEN "ok" ELSE "failed",
                                    store |-> "none", path |-> <<>>])
    /\ UNCHANGED <<ai, ti, cur_time, execution_time, day, files, dirs, delay, sweeps,
                   snapshot, storeLog, sweepHist>>

\* The step's save_image call, and the per-pair guard when it raises.
Save ==
    /\ pc = "save"
    /\ \E io \in IoOutcomes(Folder(types[ti], areas[ai], CaptureMoment(clock)), dirs) :
         LET r == save_image(content, types[ti], areas[ai], clock, files, dirs, io)
             fault == io.kind # "ok"
         IN  /\ fault => faults < MaxFaults
             /\ DrawRaises(content) => io.kind \in {"ok", "mkdir_fails"}
             /\ faults' = IF fault THEN faults + 1 ELSE faults
             /\ files' = r.files
             /\ dirs' = r.dirs
             /\ exc' = r.raised
             /\ pc' = IF r.raised = NoException THEN "pause" ELSE HandlerFor(r.raised, TRUE)
             /\ log' = SetLast(log, [Last(log) EXCEPT
                                       !.store = IF r.raised = NoException THEN "ok" ELSE "failed",
                                       !.path = r.path])
             /\ storeLog' = Append(storeLog,
                                   [area |-> areas[ai], type |-> types[ti], path |-> r.path,
                                    date |-> DayNumber(clock), bytes |-> r.bytes,
                                    ok |-> r.raised = NoException, opened |-> r.opened,
                                    sweep |-> sweeps,
                                    before |-> {f \in files : f[1] = r.path}])
    /\ content' = NoContent
    /\ UNCHANGED <<ai, ti, clock, cur_time, execution_time, day, calls, requests,
                   delay, sweeps, slow, snapshot, sweepHist>>

\* Mutant: the pause inside the try body, so that a failed step skips it.
PauseSkippedOnFailure ==
    /\ pc = "pause"
    /\ delay' = IF exc = NoException THEN [kind |-> "pause", secs |-> PAUSE] ELSE delay
    /\ clock' = IF exc = NoException THEN clock + AsyncioSleep(PAUSE) ELSE clock
    /\ LET n == NextPair(ai, ti) IN
         /\ ai' = n[1]
         /\ ti' = n[2]
         /\ pc' = IF n = <<0, 0>> THEN "return" ELSE "fetch"
    /\ UNCHANGED <<cur_time, execution_time, content, day, calls, requests, files,
                   dirs, exc, sweeps, faults, slow, log, snapshot, storeLog, sweepHist>>

\* asyncio.sleep(5), then the loops move on to the next pair or end.
Pause ==
    /\ pc = "pause"
    /\ delay' = [kind |-> "pause", secs |-> PAUSE]
    /\ clock' = clock + AsyncioSleep(PAUSE)
    /\ LET n == NextPair(ai, ti) IN
         /\ ai' = n[1]
         /\ ti' = n[2]
         /\ pc' = IF n = <<0, 0>> THEN "return" ELSE "fetch"
    /\ UNCHANGED <<cur_time, execution_time, content, day, calls, requests, files,
                   dirs, exc, sweeps, faults, slow, log, snapshot, storeLog, sweepHist>>

\* An exception raised in _run_step outside the try body (in the handler's
\* logging call or at the pause): the per-pair guard does not cover it.
Escape ==
    /\ pc = "pause"
    /\ faults < MaxFaults
    /\ faults' = faults + 1
    /\ exc' = "RuntimeError"
    /\ pc' = HandlerFor("RuntimeError", FALSE)
    /\ sweepHist' = SetLast(sweepHist, [Last(sweepHist) EXCEPT !.end = clock, !.status = "aborted"])
    /\ UNCHANGED <<ai, ti, clock, cur_time, execution_time, content, day, calls,
                   requests, files, dirs, delay, sweeps, slow, log, snapshot, storeLog>>

\* Mutant: a sweep with a failed pair raises at its end instead of returning.
ReturnRaisesOnFailure ==
    LET failed == \E i \in 1..Len(log) : log[i].fetch = "failed" \/ log[i].store = "failed" IN
    /\ pc = "return"
    /\ execution_time' = clock - cur_time
    /\ pc' = IF failed THEN "cooldown" ELSE "sleep"
    /\ sweepHist' = SetLast(sweepHist, [Last(sweepHist) EXCEPT !.end = clock,
           !.status = IF failed THEN "aborted" ELSE "completed"])
    /\ UNCHANGED <<ai, ti, clock, cur_time, content, day, calls, requests, files,
                   dirs, delay, exc, sweeps, faults, slow, log, snapshot, storeLog>>

\* return time.time() - cur_time; run logs the success.
Return ==
    /\ pc = "return"
    /\ execution_time' = clock - cur_time
    /\ pc' = "sleep"
    /\ sweepHist' = SetLast(sweepHist, [Last(sweepHist) EXCEPT !.end = clock, !.status = "completed"])
    /\ UNCHANGED <<ai, ti, clock, cur_time, content, day, calls, requests, files,
                   dirs, delay, exc, sweeps, faults, slow, log, snapshot, storeLog>>

\* await asyncio.sleep(24 * 60 * 60 - execution_time), then the loop's next turn.
DailySleep ==
    /\ pc = "sleep"
    /\ delay' = [kind |-> "daily", secs |-> SleepArg(execution_time)]
    /\ clock' = clock + AsyncioSleep(SleepArg(execution_time))
    /\ pc' = "run"
    /\ UNCHANGED <<ai, ti, cur_time, execution_time, content, day, calls, requests,
                   files, dirs, exc, sweeps, faults, slow, log, snapshot, storeLog, sweepHist>>

\* Mutant: run's except branch logs and raises again instead of sleeping and
\* going round the loop.
CooldownReraises ==
    /\ pc = "cooldown"
    /\ pc' = "exited"
    /\ UNCHANGED <<ai, ti, clock, cur_time, execution_time, content, day, calls, requests,
                   files, dirs, delay, exc, sweeps, faults, slow, log, snapshot, storeLog,
                   sweepHist>>

\* run's except branch: log, await asyncio.sleep(60), continue.
Cooldown ==
    /\ pc = "cooldown"
    /\ delay' = [kind |-> "cooldown", secs |-> COOLDOWN]
    /\ clock' = clock + AsyncioSleep(COOLDOWN)
    /\ pc' = "run"
    /\ UNCHANGED <<ai, ti, cur_time, execution_time, content, day, calls, requests,
                   files, dirs, exc, sweeps, faults, slow, log, snapshot, storeLog, sweepHist>>

Next ==
    \/ StartSweep
    \/ Fetch
    \/ Save
    \/ Pause
    \/ Escape
    \/ Return
    \/ DailySleep
    \/ Cooldown

Spec == Init /\ [][Next]_vars

SpecAnyDay == InitAnyDay /\ [][Next]_vars

\* The program with its one thread of control always taking its next step:
\* every awaited pause and I/O call returns.
SpecLive == Init /\ [][Next]_vars /\ WF_vars(Next)

\* ------------------------------------------------------------------- claims

\* The files of the archive that belong to pair (area, type).
FilesOf(fs, area, type) == {f \in fs : f[1][2] = type /\ f[1][3] = area}

\* Step i of the current sweep failed in its fetch; step j fetched, annotated
\* and stored.
FetchFailed(i) == log[i].fetch = "failed"

StepStored(j) == log[j].fetch = "ok" /\ log[j].store = "ok"

\* C1: per-pair isolation. In one sweep, when the fetch for pair A fails and the
\* step of pair B succeeds, B's file of the day is in the archive with the
\* complete annotated bytes and the sweep has written no file of A, whichever
\* of the two comes first; and a failed fetch hands control to the pause before
\* the next pair, so the sweep goes on and neither the cooldown nor the end of
\* the process follows from it.
C1_Isolated ==
    \A i, j \in 1..Len(log) :
        (i # j /\ FetchFailed(i) /\ StepStored(j)) =>
            /\ \E f \in files : f[1] = log[j].path /\ f[2].size = "full"
            /\ FilesOf(files, log[i].area, log[i].type)
                   = FilesOf(snapshot, log[i].area, log[i].type)

C1_SweepGoesOn ==
    (Len(log') = Len(log) + 1 /\ Last(log').fetch = "failed") => pc' = "pause"

C1_PerPairIsolation == [] C1_Isolated /\ [][C1_SweepGoesOn]_vars

\* C1 witness: a completed sweep in which a failed fetch lies between two
\* steps that stored their files.
C1_Witness ==
    /\ pc = "sleep"
    /\ \E i, j, k \in 1..Len(log) :
           /\ i < j /\ j < k
           /\ StepStored(i) /\ FetchFailed(j) /\ StepStored(k)
           /\ \E f \in files : f[1] = log[k].path /\ f[2].size = "full"

\* C2: per-sweep fault recovery. When an exception leaves the sweep body the
\* loop goes to the cooldown, the cooldown sleeps 60 seconds and nothing else,
\* and the next sweep starts 60 seconds after the abort, from the first pair.
C2_AbortLeadsToCooldown ==
    (sweepHist' # sweepHist /\ Len(sweepHist') = Len(sweepHist)
        /\ Last(sweepHist').status = "aborted") => pc' = "cooldown"

C2_CooldownThenRun ==
    pc = "cooldown" =>
        /\ pc' = "run"
        /\ delay' = [kind |-> "cooldown", secs |-> 60]
        /\ clock' = clock + 60

C2_RunStartsAtFirstPair ==
    pc = "run" => (pc' = "fetch" /\ ai' = 1 /\ ti' = 1 /\ log' = <<>> /\ cur_time' = clock)

C2_RestartAfterCooldown ==
    \A k \in 1..Len(sweepHist) - 1 :
        sweepHist[k].status = "aborted" => sweepHist[k + 1].start = sweepHist[k].end + 60

C2_SweepFaultRecovery ==
    /\ [] C2_RestartAfterCooldown
    /\ [][C2_AbortLeadsToCooldown /\ C2_CooldownThenRun /\ C2_RunStartsAtFirstPair]_vars

\* C2 witness: a sweep was aborted, and the sweep after it is at its first pair.
C2_Witness ==
    /\ Len(sweepHist) >= 2
    /\ sweepHist[Len(sweepHist) - 1].status = "aborted"
    /\ pc = "fetch" /\ ai = 1 /\ ti = 1
    /\ delay.kind = "cooldown"

Max(a, b) == IF a >= b THEN a ELSE b

\* C3: cadence clamp, as claimed. The value run computes for the daily sleep
\* is max(0, 86400 - d), never negative.
C3_CadenceClamp ==
    delay.kind = "daily" => (delay.secs = Max(0, 86400 - execution_time) /\ delay.secs >= 0)

\* C4: fixed daily cadence. A sweep that completes in d <= 86400 seconds is
\* followed by a sweep that starts exactly 86400 seconds after it started.
C4_FixedCadence ==
    \A k \in 1..Len(sweepHist) - 1 :
        (sweepHist[k].status = "completed" /\ sweepHist[k].end - sweepHist[k].start <= 86400)
            => sweepHist[k + 1].start = sweepHist[k].start + 86400

\* C4 witness: a sweep that took longer than a sweep of quick requests, and
\* less than a day, has been followed by the next sweep.
C4_Witness ==
    /\ Len(sweepHist) >= 2
    /\ sweepHist[1].status = "completed"
    /\ sweepHist[1].end - sweepHist[1].start > Len(areas) * Len(types) * (QuickFetch + PAUSE)
    /\ sweepHist[1].end - sweepHist[1].start <= 86400
    /\ sweepHist[2].start = sweepHist[1].start + 86400

\* The files at a path.
FilesAt(fs, path) == {f \in fs : f[1] = path}

\* The save_image call k was the latest one for its path.
LatestForPath(k) == \A m \in (k + 1)..Len(storeLog) : storeLog[m].path # storeLog[k].path

\* C5: store is all-or-nothing, as claimed. After save_image, either it
\* succeeded and the file holds the complete annotated bytes, or it failed and
\* what is at the path is what was there before the call: no empty or partial
\* file, and a file stored earlier is intact.
C5_StoreAllOrNothing ==
    \A k \in 1..Len(storeLog) :
        LatestForPath(k) =>
            IF storeLog[k].ok
            THEN <<storeLog[k].path, storeLog[k].bytes>> \in files
            ELSE /\ FilesAt(files, storeLog[k].path) = storeLog[k].before
                 /\ \A f \in FilesAt(files, storeLog[k].path) : f[2].size = "full"

\* C6: idempotent overwrite. After two successful stores for the same
\* (allergen, region, date), the later one being the latest call for the path,
\* the archive holds exactly one file for the path and it holds the bytes of
\* the later store.
C6_IdempotentOverwrite ==
    \A j, k \in 1..Len(storeLog) :
        (/\ j < k
         /\ storeLog[j].path = storeLog[k].path
         /\ storeLog[j].ok /\ storeLog[k].ok
         /\ LatestForPath(k))
            => /\ FilesAt(files, storeLog[k].path) = {<<storeLog[k].path, storeLog[k].bytes>>}
               /\ Cardinality(FilesAt(files, storeLog[k].path)) = 1

\* C6 witness: two successful stores of different bytes at one path, the
\* second in the sweep that follows a cooldown.
C6_Witness ==
    \E j, k \in 1..Len(storeLog) :
        /\ j < k
        /\ storeLog[j].path = storeLog[k].path
        /\ storeLog[j].ok /\ storeLog[k].ok
        /\ storeLog[j].bytes # storeLog[k].bytes
        /\ storeLog[j].sweep < storeLog[k].sweep
        /\ sweepHist[storeLog[j].sweep].status = "aborted"
        /\ LatestForPath(k)

\* The successful stores of a pair, as positions of storeLog.
StoresOf(area, type) ==
    {k \in 1..Len(storeLog) :
        storeLog[k].ok /\ storeLog[k].area = area /\ storeLog[k].type = type}

\* C7: one store per pair per day, as claimed. In a run without a fault, the
\* capture dates of the consecutive stores of a pair are consecutive calendar
\* days: none is skipped and none occurs twice.
C7_OneStorePerPairPerDay ==
    faults = 0 =>
        \A a \in 1..Len(areas), t \in 1..Len(types) :
            \A j, k \in StoresOf(areas[a], types[t]) :
                (j < k /\ ~ \E m \in StoresOf(areas[a], types[t]) : j < m /\ m < k)
                    => storeLog[k].date = storeLog[j].date + 1

\* The pairs in region-major order.
RegionMajor ==
    [k \in 1..(Len(areas) * Len(types)) |->
        <<areas[((k - 1) \div Len(types)) + 1], types[((k - 1) % Len(types)) + 1]>>]

\* C8: sweep order and single attempt. The steps of a sweep are the pairs in
\* region-major order, each once, also after a failure; a completed sweep has
\* run every pair; and a step starts only when every earlier step of the sweep
\* has finished (only the last step can be between its fetch and its store).
C8_SweepOrder ==
    /\ Len(log) <= Len(RegionMajor)
    /\ \A k \in 1..Len(log) : <<log[k].area, log[k].type>> = RegionMajor[k]
    /\ pc \in {"return", "sleep"} => Len(log) = Len(RegionMajor)
    /\ \A k \in 1..Len(log) :
           (log[k].fetch = "ok" /\ log[k].store = "none") => (k = Len(log) /\ pc = "save")
    /\ pc = "fetch" => <<areas[ai], types[ti]>> = RegionMajor[Len(log) + 1]

\* C8 witness: a completed sweep with a failed step in it.
C8_Witness ==
    /\ pc = "sleep"
    /\ Len(log) = 4
    /\ \E k \in 1..3 : log[k].fetch = "failed" \/ log[k].store = "failed"

C10_DayOffsetBound ==
    IF day \in {0, 1, 2}
    THEN requests = calls
    ELSE /\ requests = 0
         /\ \A k \in 1..Len(log) : log[k].fetch = "failed"
         /\ (calls > 0 /\ pc # "fetch") => exc \in {"AssertionError", "RuntimeError"}
         /\ storeLog = <<>>

\* C10 witness: get_data has been called with day offset 3 by every step of a
\* sweep and no request has been issued.
C10_Witness ==
    /\ day = 3
    /\ calls = 4
    /\ requests = 0
    /\ pc = "sleep"

\* C11: the loop runs forever. Under step successes and failures of every kind
\* the loop has no terminal state: the process never exits, and some step of
\* the loop is enabled in every state short of the bound on sweeps; and, every
\* pause and I/O call returning, a sweep that has started ends (completed or
\* aborted) and after a sweep has ended another sweep starts.
C11_NoTerminalState ==
    /\ pc # "exited"
    /\ (pc = "run" /\ sweeps >= MaxSweeps) \/ ENABLED Next

C11_SweepEnds == (pc = "fetch") ~> (pc \in {"sleep", "cooldown"})

C11_AnotherSweepStarts ==
    (pc \in {"sleep", "cooldown"} /\ sweeps < MaxSweeps)
        ~> (pc = "fetch" /\ ai = 1 /\ ti = 1 /\ log = <<>>)

C11_RunsForever == [] C11_NoTerminalState /\ C11_SweepEnds /\ C11_AnotherSweepStarts

\* C11 witness: a second sweep has started after a sweep that met a fault
\* (a failed or hung step) and was followed by the daily sleep.
C11_Witness ==
    /\ Len(sweepHist) = 2
    /\ sweepHist[1].status = "completed"
    /\ faults = 1
    /\ exc = NoException
    /\ pc = "fetch" /\ log = <<>>

\* The calendar date of day number d of the clock, for the days of a model run
\* (day 0 is 2024-12-30).
DateOfDay(d) ==
    IF d = 0 THEN <<2024, 12, 30>>
    ELSE IF d = 1 THEN <<2024, 12, 31>>
    ELSE <<2025, 1, d - 1>>

\* C12: path determinism and layout. The path of every save_image call is
\* <base>/<allergen>/<region>/<year>/<month>/<day>.png for the calendar date of
\* the call; two calls for the same (allergen, region, date) have the same path,
\* whatever their bytes and their time of day.
C12_PathLayout ==
    /\ \A k \in 1..Len(storeLog) :
           storeLog[k].path = <<"keker", storeLog[k].type, storeLog[k].area>>
                                  \o DateOfDay(storeLog[k].date)
    /\ \A j, k \in 1..Len(storeLog) :
           (/\ storeLog[j].type = storeLog[k].type
            /\ storeLog[j].area = storeLog[k].area
            /\ storeLog[j].date = storeLog[k].date)
               => storeLog[j].path = storeLog[k].path

\* C12 witness: two calls of different sweeps, with different bytes, for
\* (AllergyRisk, France) on 2024-12-31, after a call on 2024-12-30.
C12_Witness ==
    \E i, j, k \in 1..Len(storeLog) :
        /\ storeLog[i].date = 0
        /\ j < k
        /\ storeLog[j].sweep < storeLog[k].sweep
        /\ storeLog[j].bytes.image # storeLog[k].bytes.image
        /\ storeLog[j].path = <<"keker", "AllergyRisk", "France", 2024, 12, 31>>
        /\ storeLog[k].path = <<"keker", "AllergyRisk", "France", 2024, 12, 31>>

\* C13: inter-pair pause. A step of a sweep other than its first is entered
\* only from the pause that follows the step before it, whether that step
\* succeeded or failed, and this pause is asyncio.sleep(5): 5 seconds pass
\* between the end of a step and the next request; a request is issued only
\* at the start of a step.
C13_NextStepAfterPause ==
    (pc' = "fetch" /\ pc # "run") =>
        /\ pc = "pause"
        /\ delay' = [kind |-> "pause", secs |-> 5]
        /\ clock' = clock + 5

C13_StepEndsInPause ==
    (pc \in {"fetch", "save"} /\ pc' # "save") => (pc' = "pause" /\ delay' = delay)

C13_RequestOnlyInStep == (requests' # requests) => pc = "fetch"

C13_InterPairPause ==
    [][C13_NextStepAfterPause /\ C13_StepEndsInPause /\ C13_RequestOnlyInStep]_vars

\* C13 witness: the step after a failed step has issued its request, 5 seconds
\* after the failed step ended.
C13_Witness ==
    /\ pc = "save"
    /\ Len(log) = 2
    /\ log[1].fetch = "failed"
    /\ delay = [kind |-> "pause", secs |-> 5]
    /\ clock = sweepHist[1].start + QuickFetch + 5 + QuickFetch

\* C14: a step that fails before the store leaves the archive untouched, as
\* claimed. When the fetch of a step fails, or its annotation (the decoding of
\* the image), the files and the directories of the archive after the step are
\* those before it.
C14_FetchFailureStep == pc = "fetch" /\ pc' = "pause"

C14_AnnotationFailureStep == pc = "save" /\ exc' = "UnidentifiedImageError"

C14_FailedStepLeavesArchive ==
    [][(C14_FetchFailureStep \/ C14_AnnotationFailureStep)
           => (files' = files /\ dirs' = dirs)]_vars

\* C15: label and path agree. Every file of the archive holds (in full, or in
\* part after a failed write) an image whose label is the date of the file's
\* path (year, month, day) and the allergen of the file's path.
C15_LabelMatchesPath ==
    \A f \in files : f[2].label = <<f[1][4], f[1][5], f[1][6], f[1][2]>>

\* C15 witness: the first step of a sweep began on 2024-12-30, its request
\* returned after midnight, and the file it stored is at .../2024/12/31 with
\* the label of 2024-12-31.
C15_Witness ==
    /\ Len(sweepHist) = 1 /\ DayNumber(sweepHist[1].start) = 0
    /\ Len(log) = 1 /\ log[1].store = "ok"
    /\ \E f \in files :
           /\ f[1] = <<"keker", "AllergyRisk", "Austria", 2024, 12, 31>>
           /\ f[2].label = <<2024, 12, 31, "AllergyRisk">>
           /\ f[2].size = "full"

\* C16: legible backing plate, as claimed. The plate behind the label of every
\* stored image is at offset (10, 10) with 4 pixels of padding, and the alpha
\* of its fill is not negligible: neither 0 nor 1 out of 255.
C16_LegiblePlate ==
    \A f \in files :
        /\ f[2].plate.at = <<10, 10>>
        /\ f[2].plate.padding = 4
        /\ f[2].plate.fill[4] \notin {0, 1}

\* The failures of a step: transport (fetch), decode (annotation), storage.
StepFailures == {"HTTPError", "UnidentifiedImageError", "OSError"}

\* C17: the sweep-level guard is never triggered by a step failure. A failure
\* raised by get_data or save_image is caught by the per-pair guard: control
\* goes to the pause and the sweep is not aborted; the cooldown is never
\* entered with a transport, decode or storage failure.
C17_CooldownNotFromStep == pc = "cooldown" => exc \notin StepFailures

C17_StepFailureAbsorbed ==
    (pc \in {"fetch", "save"} /\ exc' \in StepFailures)
        => (pc' = "pause" /\ sweepHist' = sweepHist)

C17_SweepGuardNotTriggered == [] C17_CooldownNotFromStep /\ [][C17_StepFailureAbsorbed]_vars

\* C17 witness: a sweep whose last step failed in the store has returned.
C17_Witness ==
    /\ pc = "sleep"
    /\ exc = "OSError"
    /\ Len(log) = 4 /\ log[4].store = "failed"
    /\ Last(sweepHist).status = "completed"

\* Some pair of the sweep in the log failed, in the fetch or in the store.
SomePairFailed ==
    \E i \in 1..Len(log) : log[i].fetch = "failed" \/ log[i].store = "failed"

\* C18: a sweep with failed pairs still counts as completed. Whatever the log
\* of the sweep holds, the end of _run_step marks the sweep completed and goes
\* to the daily sleep, the daily sleep is asked for 86400 - d seconds and leads
\* to the next turn of the loop, and neither step issues a request or a store.
C18_ReturnCompletes ==
    pc = "return"
        => /\ pc' = "sleep"
           /\ Last(sweepHist').status = "completed"
           /\ execution_time' = clock - cur_time

C18_DailySleepFollows ==
    pc = "sleep"
        => /\ pc' = "run"
           /\ delay' = [kind |-> "daily", secs |-> DAY - execution_time]

C18_NoRetryBeforeNextSweep ==
    pc \in {"return", "sleep"}
        => (requests' = requests /\ calls' = calls /\ storeLog' = storeLog /\ files' = files)

C18_FailedSweepCompleted ==
    [][C18_ReturnCompletes /\ C18_DailySleepFollows /\ C18_NoRetryBeforeNextSweep]_vars

\* C18 witness: the daily sleep has been taken after a sweep with a failed pair.
C18_Witness ==
    /\ pc = "run"
    /\ delay.kind = "daily"
    /\ SomePairFailed
    /\ Last(sweepHist).status = "completed"

\* The (allergen, region, calendar date) triple of the save_image call k.
TripleOf(k) == <<storeLog[k].type, storeLog[k].area, storeLog[k].date>>

\* C19: archive paths do not collide. Two save_image calls whose (allergen,
\* region, date) triples differ write to different paths; the file of a
\* successful store stays as stored until a later call for the same triple;
\* and the archive holds at most one file per path, every path being the one
\* of some call's triple.
C19_DistinctTriplesDistinctPaths ==
    \A j, k \in 1..Len(storeLog) :
        TripleOf(j) # TripleOf(k) => storeLog[j].path # storeLog[k].path

C19_NoCrossOverwrite ==
    \A k \in 1..Len(storeLog) :
        (/\ storeLog[k].ok
         /\ \A m \in (k + 1)..Len(storeLog) : TripleOf(m) # TripleOf(k))
            => <<storeLog[k].path, storeLog[k].bytes>> \in files

C19_OneFilePerTriple ==
    /\ \A f, g \in files : f[1] = g[1] => f = g
    /\ \A f \in files : \E k \in 1..Len(storeLog) : storeLog[k].path = f[1]
    /\ Cardinality(files) <= Cardinality({TripleOf(k) : k \in 1..Len(storeLog)})

C19_PathsDoNotCollide ==
    /\ C19_DistinctTriplesDistinctPaths
    /\ C19_NoCrossOverwrite
    /\ C19_OneFilePerTriple

\* C19 witness: after two sweeps the archive holds the files of every pair for
\* two dates each, eight files of eight successful stores.
C19_Witness ==
    /\ Cardinality(files) = 8
    /\ Len(storeLog) = 8
    /\ \A k \in 1..Len(storeLog) : storeLog[k].ok
    /\ \E j, k \in 1..Len(storeLog) :
           /\ storeLog[j].type = storeLog[k].type
           /\ storeLog[j].area = storeLog[k].area
           /\ storeLog[j].date # storeLog[k].date

====
